---- MODULE Spec2Model ----
(***************************************************************************)
(* Model of scripts/download_data.py (and the copy of download_feed_data   *)
(* in scripts/prefetch_data.py): inventory grouping, agency resolution,    *)
(* per-day download loop with skip-if-exists and failure cleanup, and the  *)
(* summary.                                                                *)
(*                                                                         *)
(* Date strings "YYYY-MM-DD" are triples <<y, m, d>>; a datetime is its    *)
(* proleptic Gregorian ordinal, as in CPython's datetime.  An optional     *)
(* string (system_id) is <<>> for None and <<s>> for the string s.         *)
(***************************************************************************)
EXTENDS Integers, Sequences, FiniteSets, TLC

(***************************************************************************)
(* Bounds of the model.                                                    *)
(***************************************************************************)
MaxRecords == 2      \* longest inventory list
MaxSpan == 2         \* longest requested date range, in days
MaxRuns == 2         \* invocations of the same request in a row
MaxFailures == 1     \* transport failures in one run

(***************************************************************************)
(* Dates: datetime.strptime / strftime / timedelta arithmetic.             *)
(***************************************************************************)
None == <<>>
Some(s) == <<s>>

IsLeap(y) == y % 4 = 0 /\ (y % 100 # 0 \/ y % 400 = 0)

DaysInMonth(y, m) ==
    IF m = 2 THEN (IF IsLeap(y) THEN 29 ELSE 28)
    ELSE IF m \in {4, 6, 9, 11} THEN 30 ELSE 31

DaysBeforeYear(y) ==
    LET p == y - 1 IN p * 365 + (p \div 4) - (p \div 100) + (p \div 400)

RECURSIVE DaysBeforeMonth(_, _)
DaysBeforeMonth(y, m) ==
    IF m = 1 THEN 0 ELSE DaysBeforeMonth(y, m - 1) + DaysInMonth(y, m - 1)

Years == 2023 .. 2027

\* datetime.strptime(s, "%Y-%m-%d"): the date string to a point in time
strptime(s) == DaysBeforeYear(s[1]) + DaysBeforeMonth(s[1], s[2]) + s[3]

\* dt.strftime("%Y-%m-%d"): the point in time back to a date string
strftime(n) ==
    LET y == CHOOSE yy \in Years :
                 DaysBeforeYear(yy) < n /\ n <= DaysBeforeYear(yy + 1)
        r == n - DaysBeforeYear(y)
        m == CHOOSE mm \in 1 .. 12 :
                 DaysBeforeMonth(y, mm) < r
                 /\ r <= DaysBeforeMonth(y, mm) + DaysInMonth(y, mm)
    IN <<y, m, r - DaysBeforeMonth(y, m)>>

\* Python's < on two ISO date strings (zero padded, so field by field)
DateStrLess(a, b) ==
    \/ a[1] < b[1]
    \/ a[1] = b[1] /\ a[2] < b[2]
    \/ a[1] = b[1] /\ a[2] = b[2] /\ a[3] < b[3]

DateStrMin(a, b) == IF DateStrLess(b, a) THEN b ELSE a
DateStrMax(a, b) == IF DateStrLess(a, b) THEN b ELSE a

\* (strptime(end) - strptime(start)).days + 1
DayCount(start_date, end_date) == strptime(end_date) - strptime(start_date) + 1

(***************************************************************************)
(* Strings: Python compares str by code point.                             *)
(***************************************************************************)
Codes ==
    [s \in {"", "default", "bus", "rail", "A", "B",
            "vehicle_positions", "trip_updates", "service_alerts"} |->
        CASE s = "" -> <<>>
          [] s = "A" -> <<65>>
          [] s = "B" -> <<66>>
          [] s = "default" -> <<100, 101, 102, 97, 117, 108, 116>>
          [] s = "bus" -> <<98, 117, 115>>
          [] s = "rail" -> <<114, 97, 105, 108>>
          [] s = "vehicle_positions" ->
                <<118, 101, 104, 105, 99, 108, 101, 95,
                  112, 111, 115, 105, 116, 105, 111, 110, 115>>
          [] s = "trip_updates" ->
                <<116, 114, 105, 112, 95, 117, 112, 100, 97, 116, 101, 115>>
          [] s = "service_alerts" ->
                <<115, 101, 114, 118, 105, 99, 101, 95,
                  97, 108, 101, 114, 116, 115>>]

RECURSIVE SeqLess(_, _)
SeqLess(a, b) ==
    IF b = <<>> THEN FALSE
    ELSE IF a = <<>> THEN TRUE
    ELSE IF Head(a) # Head(b) THEN Head(a) < Head(b)
    ELSE SeqLess(Tail(a), Tail(b))



(***************************************************************************)
(* Python dicts keep insertion order: keys in order, val the mapping.      *)
(***************************************************************************)
Put(f, k, v) == [x \in (DOMAIN f) \cup {k} |-> IF x = k THEN v ELSE f[x]]

DictEmpty == [keys |-> <<>>, val |-> <<>>]
DictHas(d, k) == \E i \in 1 .. Len(d.keys) : d.keys[i] = k
DictPut(d, k, v) ==
    [keys |-> IF DictHas(d, k) THEN d.keys ELSE Append(d.keys, k),
     val |-> Put(d.val, k, v)]

(***************************************************************************)
(* The inventory: feed records as the inventory provider supplies them.    *)
(***************************************************************************)
Rec(aid, sid, sname, ft, b64, dmin, dmax, bytes) ==
    [agency_id |-> aid, agency_name |-> "Agency " \o aid,
     system_id |-> sid, system_name |-> sname,
     feed_type |-> ft, base64url |-> b64,
     date_min |-> dmin, date_max |-> dmax, total_bytes |-> bytes]

FeedRecords ==
    { Rec("A", None, None, "vehicle_positions", "X",
          <<2024, 2, 29>>, <<2024, 3, 1>>, 3100),
      Rec("A", Some("default"), Some("Default"), "vehicle_positions", "P",
          <<2024, 3, 1>>, <<2024, 3, 1>>, 2000),
      Rec("A", Some("bus"), Some("Bus"), "vehicle_positions", "P",
          <<2024, 2, 29>>, <<2024, 2, 29>>, 1000),
      Rec("A", Some("rail"), Some("Rail"), "trip_updates", "Q",
          <<2024, 2, 29>>, <<2024, 3, 1>>, 0) }

RECURSIVE SeqsUpTo(_, _)
SeqsUpTo(S, n) ==
    IF n = 0 THEN {<<>>}
    ELSE LET shorter == SeqsUpTo(S, n - 1)
         IN shorter \cup {Append(q, x) : q \in shorter, x \in S}

Inventories == SeqsUpTo(FeedRecords, MaxRecords)

(***************************************************************************)
(* get_agencies: group the inventory by agency_id and system_id.           *)
(***************************************************************************)
AddFeed_LastBounds(agencies, feed) ==
    LET aid == feed.agency_id
        sid == feed.system_id
        a0 == IF aid \in DOMAIN agencies THEN agencies[aid]
              ELSE [name |-> feed.agency_name, systems |-> DictEmpty,
                    date_min |-> feed.date_min, date_max |-> feed.date_max]
        s0 == IF DictHas(a0.systems, sid) THEN a0.systems.val[sid]
              ELSE [name |-> feed.system_name, feeds |-> DictEmpty,
                    date_min |-> feed.date_min, date_max |-> feed.date_max]
        s1 == [s0 EXCEPT !.feeds = DictPut(@, feed.feed_type, feed),
                         !.date_min = feed.date_min,
                         !.date_max = feed.date_max]
        a1 == [a0 EXCEPT !.systems = DictPut(@, sid, s1),
                         !.date_min = feed.date_min,
                         !.date_max = feed.date_max]
    IN Put(agencies, aid, a1)

AddFeed(agencies, feed) ==
    LET aid == feed.agency_id
        sid == feed.system_id
        a0 == IF aid \in DOMAIN agencies THEN agencies[aid]
              ELSE [name |-> feed.agency_name, systems |-> DictEmpty,
                    date_min |-> feed.date_min, date_max |-> feed.date_max]
        s0 == IF DictHas(a0.systems, sid) THEN a0.systems.val[sid]
              ELSE [name |-> feed.system_name, feeds |-> DictEmpty,
                    date_min |-> feed.date_min, date_max |-> feed.date_max]
        s1 == [s0 EXCEPT !.feeds = DictPut(@, feed.feed_type, feed),
                         !.date_min = DateStrMin(@, feed.date_min),
                         !.date_max = DateStrMax(@, feed.date_max)]
        a1 == [a0 EXCEPT !.systems = DictPut(@, sid, s1),
                         !.date_min = DateStrMin(@, feed.date_min),
                         !.date_max = DateStrMax(@, feed.date_max)]
    IN Put(agencies, aid, a1)

RECURSIVE get_agencies_from(_, _)
get_agencies_from(agencies, inv) ==
    IF inv = <<>> THEN agencies
    ELSE get_agencies_from(AddFeed(agencies, Head(inv)), Tail(inv))

get_agencies(inv) == get_agencies_from(<<>>, inv)

(***************************************************************************)
(* download_agency: the feeds to download and their order.                 *)
(***************************************************************************)
Truthy(sid) == sid # None /\ sid # Some("")

\* "Filter to specific system if requested": the systems to download, or
\* the error return when the requested system is not one of the agency's
FilterSystems_Fallback(systems, system_id) ==
    IF system_id # None /\ DictHas(systems, system_id)
    THEN [unknown |-> FALSE,
          systems |-> DictPut(DictEmpty, system_id, systems.val[system_id])]
    ELSE [unknown |-> FALSE, systems |-> systems]
FilterSystems(systems, system_id) ==
    IF system_id # None
    THEN IF ~DictHas(systems, system_id)
         THEN [unknown |-> TRUE, systems |-> DictEmpty]
         ELSE [unknown |-> FALSE,
               systems |-> DictPut(DictEmpty, system_id, systems.val[system_id])]
    ELSE [unknown |-> FALSE, systems |-> systems]

SidOrDefault(sid) == IF Truthy(sid) THEN sid[1] ELSE "default"

\* key = f"{sid or 'default'}:{feed_type}"
FeedKey(sid, feed_type) == SidOrDefault(sid) \o ":" \o feed_type

\* the code points of a string, also of a compound key
CodesOf(s) ==
    IF s \in DOMAIN Codes THEN Codes[s]
    ELSE LET p == CHOOSE q \in (DOMAIN Codes) \X (DOMAIN Codes) :
                      q[1] \o ":" \o q[2] = s
         IN Codes[p[1]] \o <<58>> \o Codes[p[2]]

KeyLess(a, b) == SeqLess(CodesOf(a), CodesOf(b))

\* sorted(d.keys())
RECURSIVE sorted_Reversed(_)
sorted_Reversed(S) ==
    IF S = {} THEN <<>>
    ELSE LET m == CHOOSE x \in S : \A y \in S \ {x} : KeyLess(y, x)
         IN <<m>> \o sorted_Reversed(S \ {m})

RECURSIVE sorted(_)
sorted(S) ==
    IF S = {} THEN <<>>
    ELSE LET m == CHOOSE x \in S : \A y \in S \ {x} : KeyLess(x, y)
         IN <<m>> \o sorted(S \ {m})

\* for feed_type, feed in sys_info["feeds"].items(): all_feeds[key] = ...
RECURSIVE CollectFeeds(_, _, _, _)
CollectFeeds(all, sid, feeds, i) ==
    IF i > Len(feeds.keys) THEN all
    ELSE LET ft == feeds.keys[i]
         IN CollectFeeds(Put(all, FeedKey(sid, ft), <<sid, ft, feeds.val[ft]>>),
                         sid, feeds, i + 1)

\* for sid, sys_info in systems_to_download.items(): ...
RECURSIVE CollectSystems(_, _, _)
CollectSystems(all, systems, i) ==
    IF i > Len(systems.keys) THEN all
    ELSE LET sid == systems.keys[i]
         IN CollectSystems(CollectFeeds(all, sid, systems.val[sid].feeds, 1),
                           systems, i + 1)

Max(a, b) == IF a >= b THEN a ELSE b

\* the size estimate printed for one feed
EstimatedSize(feed, num_days) ==
    LET days_available == DayCount(feed.date_min, feed.date_max)
        avg_bytes_per_day == feed.total_bytes \div Max(days_available, 1)
    IN avg_bytes_per_day * num_days

\* print_summary: the totals over sorted(results.items())
RECURSIVE SumOver_Swapped(_, _, _)
SumOver_Swapped(results, keys, j) ==
    IF keys = <<>> THEN 0
    ELSE results[Head(keys)][3 - j] + SumOver_Swapped(results, Tail(keys), j)

RECURSIVE SumOver(_, _, _)
SumOver(results, keys, j) ==
    IF keys = <<>> THEN 0
    ELSE results[Head(keys)][j] + SumOver(results, Tail(keys), j)

print_summary(results) ==
    LET keys == sorted(DOMAIN results)
    IN [lines |-> [i \in 1 .. Len(keys) |->
                      <<keys[i], results[keys[i]][1], results[keys[i]][2]>>],
        total_downloaded |-> SumOver(results, keys, 1),
        total_skipped |-> SumOver(results, keys, 2),
        printed |-> TRUE]

(***************************************************************************)
(* The local cache: destination path -> content of data.parquet.           *)
(***************************************************************************)
Remove(f, k) ==
    IF (DOMAIN f) \ {k} = {} THEN <<>> ELSE [x \in (DOMAIN f) \ {k} |-> f[x]]

\* output_dir / feed_type / date=<date> / base64url=<b64> / data.parquet
LocalFile(feed_type, date_str, feed_base64) == <<feed_type, date_str, feed_base64>>

\* local_file.exists()
Exists_NonEmpty(files, local_file) ==
    local_file \in DOMAIN files /\ files[local_file] = "data"
Exists_Never(files, local_file) == FALSE
Exists(files, local_file) == local_file \in DOMAIN files

\* if local_file.exists(): local_file.unlink()
Cleanup_NoUnlink(files, local_file) == files
Cleanup_WholeFeed(files, local_file) ==
    LET keep == {p \in DOMAIN files : p[1] # local_file[1]}
    IN IF keep = {} THEN <<>> ELSE [p \in keep |-> files[p]]
Cleanup(files, local_file) ==
    IF local_file \in DOMAIN files THEN Remove(files, local_file) ELSE files

\* where control goes after an except clause has run: on with the loop
ExceptPc_HTTPErrorOnly(kind) == IF kind = "HTTPError" THEN "days" ELSE "raised"
ExceptPc(kind) == "days"

\* while current <= end
LoopCond_Inclusive(current, end) == current <= end + 1
LoopCond_Exclusive(current, end) == current < end
LoopCond(current, end) == current <= end

(***************************************************************************)
(* Requests.                                                               *)
(***************************************************************************)
DEFAULT_DATE == <<2026, 1, 24>>

StartDates == {<<2024, 2, 29>>, <<2025, 12, 31>>}
AgencyStartDates == {<<2024, 2, 29>>}

EndDates(start) == {strftime(strptime(start) + k) : k \in (0 - 1) .. (MaxSpan - 1)}

AgencyIds == {"A", "B"}
SystemIds == {None, Some(""), Some("bus")}

Req(mode, aid, sid, all, start, end, ft, b64) ==
    [mode |-> mode, agency_id |-> aid, system_id |-> sid, all_dates |-> all,
     start_date |-> start, end_date |-> end, feed_type |-> ft, feed_base64 |-> b64]

\* main() with --agency and --date or --all-dates
MainRequests ==
    {Req("main", a, s, FALSE, d, d, "", "") :
        a \in AgencyIds, s \in SystemIds, d \in AgencyStartDates}
    \cup {Req("main", a, s, TRUE, DEFAULT_DATE, DEFAULT_DATE, "", "") :
        a \in AgencyIds, s \in SystemIds}

\* download_agency called with a date range
AgencyRequests ==
    UNION {{Req("agency", a, s, FALSE, d, e, "", "") :
               a \in AgencyIds, s \in SystemIds, e \in EndDates(d)} :
           d \in AgencyStartDates}

\* download_feed_data called on an explicit feed (main --feed-type, prefetch)
FeedRequests ==
    UNION {{Req("feed", "", None, FALSE, d, e, "vehicle_positions", b) :
               b \in {"X"}, e \in EndDates(d)} :
           d \in StartDates}

\* files that may be in the cache before the first run
InitialCaches ==
    {<<>>,
     (LocalFile("vehicle_positions", <<2024, 2, 29>>, "X") :> "old")}

(***************************************************************************)
(* State.                                                                  *)
(***************************************************************************)
VARIABLES
    inventory,    \* the list fetch_inventory() returns
    request,      \* the arguments of this invocation
    fs,           \* the cache: destination path -> file content
    dirs,         \* directories made by local_dir.mkdir
    pc,           \* position of the single thread of control
    run,          \* number of the current invocation
    status,       \* what the resolution reported
    start_date,   \* arguments of download_agency / download_feed_data
    end_date,
    all_feeds,    \* download_agency: key -> (sid, feed_type, feed)
    order,        \* download_agency: sorted(all_feeds.keys())
    idx,          \* download_agency: position in the download loop
    num_days,     \* download_agency: days to download
    estimates,    \* download_agency: the printed size estimates, in order
    warning,      \* download_agency: the date range warning was printed
    frame,        \* download_feed_data: its arguments and locals
    results,      \* download_agency: key -> (downloaded, skipped)
    log,          \* the progress lines printed in this run
    requests,     \* the urls handed to urlretrieve in this run
    exc,          \* the exception being handled, if any
    summary,      \* what print_summary printed
    ret,          \* what the explicit download_feed_data call returned
    prev          \* the outcome of the previous run

vars == <<inventory, request, fs, dirs, pc, run, status, start_date, end_date,
          all_feeds, order, idx, num_days, estimates, warning, frame, results,
          log, requests, exc, summary, ret, prev>>

NoFrame == [key |-> "", feed_type |-> "", feed_base64 |-> "",
            current |-> 0, end |-> 0, downloaded |-> 0, skipped |-> 0]
NoSummaryYet == [lines |-> <<>>, total_downloaded |-> 0, total_skipped |-> 0,
                 printed |-> FALSE]
NoPrev == [downloaded |-> {}, failed |-> {}, fs |-> <<>>]

EntryPc(mode) ==
    CASE mode = "main" -> "main"
      [] mode = "agency" -> "download_agency"
      [] mode = "feed" -> "download_feed_data"

\* the state in which an invocation starts, cache and request aside
Fresh ==
    /\ pc' = EntryPc(request.mode)
    /\ status' = "none"
    /\ start_date' = request.start_date
    /\ end_date' = request.end_date
    /\ all_feeds' = <<>>
    /\ order' = <<>>
    /\ idx' = 0
    /\ num_days' = 0
    /\ estimates' = <<>>
    /\ warning' = FALSE
    /\ frame' = NoFrame
    /\ results' = <<>>
    /\ log' = <<>>
    /\ requests' = <<>>
    /\ exc' = "none"
    /\ summary' = NoSummaryYet
    /\ ret' = <<>>

Init ==
    /\ request \in MainRequests \cup AgencyRequests \cup FeedRequests
    /\ inventory \in (IF request.mode = "feed" THEN {<<>>} ELSE Inventories)
    /\ fs \in (IF request.mode = "feed" THEN InitialCaches ELSE {<<>>})
    /\ dirs = DOMAIN fs
    /\ run = 1
    /\ prev = NoPrev
    /\ pc = EntryPc(request.mode)
    /\ status = "none"
    /\ start_date = request.start_date
    /\ end_date = request.end_date
    /\ all_feeds = <<>>
    /\ order = <<>>
    /\ idx = 0
    /\ num_days = 0
    /\ estimates = <<>>
    /\ warning = FALSE
    /\ frame = NoFrame
    /\ results = <<>>
    /\ log = <<>>
    /\ requests = <<>>
    /\ exc = "none"
    /\ summary = NoSummaryYet
    /\ ret = <<>>

(***************************************************************************)
(* main(), --agency mode: validate, choose the date range.                 *)
(***************************************************************************)
MainAgency ==
    /\ pc = "main"
    /\ LET agencies == get_agencies(inventory)
           agency_id == request.agency_id
           system_id == request.system_id
       IN IF inventory = <<>>
          THEN /\ status' = "NoInventory"
               /\ pc' = "done"
               /\ UNCHANGED <<start_date, end_date>>
          ELSE IF agency_id \notin DOMAIN agencies
          THEN /\ status' = "UnknownAgency"
               /\ pc' = "done"
               /\ UNCHANGED <<start_date, end_date>>
          ELSE IF Truthy(system_id) /\ ~DictHas(agencies[agency_id].systems, system_id)
          THEN /\ status' = "UnknownSystem"
               /\ pc' = "done"
               /\ UNCHANGED <<start_date, end_date>>
          ELSE LET date_info == IF Truthy(system_id)
                                THEN agencies[agency_id].systems.val[system_id]
                                ELSE agencies[agency_id]
               IN /\ start_date' = IF request.all_dates THEN date_info.date_min
                                   ELSE request.start_date
                  /\ end_date' = IF request.all_dates THEN date_info.date_max
                                 ELSE request.end_date
                  /\ pc' = "download_agency"
                  /\ UNCHANGED status
    /\ UNCHANGED <<inventory, request, fs, dirs, run, all_feeds, order, idx,
                   num_days, estimates, warning, frame, results, log, requests,
                   exc, summary, ret, prev>>

(***************************************************************************)
(* download_agency up to the download loop: resolve, collect, estimate.    *)
(***************************************************************************)
DownloadAgency ==
    /\ pc = "download_agency"
    /\ LET agencies == get_agencies(inventory)
           agency_id == request.agency_id
           system_id == request.system_id
       IN IF agency_id \notin DOMAIN agencies
          THEN /\ status' = "UnknownAgency"
               /\ pc' = "returned"
               /\ UNCHANGED <<all_feeds, order, idx, num_days, estimates, warning>>
          ELSE LET agency == agencies[agency_id]
                   systems == agency.systems
                   filtered == FilterSystems(systems, system_id)
               IN IF filtered.unknown
                  THEN /\ status' = "UnknownSystem"
                       /\ pc' = "returned"
                       /\ UNCHANGED <<all_feeds, order, idx, num_days, estimates,
                                      warning>>
                  ELSE LET systems_to_download == filtered.systems
                           feeds == CollectSystems(<<>>, systems_to_download, 1)
                           keys == sorted(DOMAIN feeds)
                           days == DayCount(start_date, end_date)
                       IN /\ status' = "ok"
                          /\ warning' = (DateStrLess(start_date, agency.date_min)
                                         \/ DateStrLess(agency.date_max, end_date))
                          /\ all_feeds' = feeds
                          /\ num_days' = days
                          /\ order' = keys
                          /\ estimates' = [i \in 1 .. Len(keys) |->
                                 <<keys[i], EstimatedSize(feeds[keys[i]][3], days)>>]
                          /\ idx' = 1
                          /\ pc' = "feeds"
    /\ results' = <<>>
    /\ UNCHANGED <<inventory, request, fs, dirs, run, start_date, end_date, frame,
                   log, requests, exc, summary, ret, prev>>

\* for key in sorted(all_feeds.keys()): download_feed_data(...) is entered
NextFeed ==
    /\ pc = "feeds"
    /\ idx <= Len(order)
    /\ LET key == order[idx]
           feed_type == all_feeds[key][2]
           feed == all_feeds[key][3]
       IN frame' = [key |-> key, feed_type |-> feed_type,
                    feed_base64 |-> feed.base64url,
                    current |-> strptime(start_date), end |-> strptime(end_date),
                    downloaded |-> 0, skipped |-> 0]
    /\ pc' = "days"
    /\ UNCHANGED <<inventory, request, fs, dirs, run, status, start_date, end_date,
                   all_feeds, order, idx, num_days, estimates, warning, results,
                   log, requests, exc, summary, ret, prev>>

\* the download loop is over: return results
ReturnResults ==
    /\ pc = "feeds"
    /\ idx > Len(order)
    /\ pc' = "returned"
    /\ UNCHANGED <<inventory, request, fs, dirs, run, status, start_date, end_date,
                   all_feeds, order, idx, num_days, estimates, warning, frame,
                   results, log, requests, exc, summary, ret, prev>>

\* download_feed_data is entered for an explicit feed
ExplicitFeed ==
    /\ pc = "download_feed_data"
    /\ frame' = [key |-> request.feed_type, feed_type |-> request.feed_type,
                 feed_base64 |-> request.feed_base64,
                 current |-> strptime(start_date), end |-> strptime(end_date),
                 downloaded |-> 0, skipped |-> 0]
    /\ status' = "ok"
    /\ pc' = "days"
    /\ UNCHANGED <<inventory, request, fs, dirs, run, start_date, end_date,
                   all_feeds, order, idx, num_days, estimates, warning, results,
                   log, requests, exc, summary, ret, prev>>

(***************************************************************************)
(* download_feed_data: one pass of the while loop per action.              *)
(***************************************************************************)
date_str == strftime(frame.current)
local_file == LocalFile(frame.feed_type, date_str, frame.feed_base64)

InLoop == pc = "days" /\ LoopCond(frame.current, frame.end)

Line(outcome) ==
    [key |-> frame.key, date |-> date_str, file |-> local_file, outcome |-> outcome]

\* local_file.exists(): [skip], skipped += 1
SkipExisting ==
    /\ InLoop
    /\ Exists(fs, local_file)
    /\ dirs' = dirs \cup {local_file}
    /\ log' = Append(log, Line("skip"))
    /\ frame' = [frame EXCEPT !.skipped = @ + 1, !.current = @ + 1]
    /\ UNCHANGED <<inventory, request, fs, pc, run, status, start_date, end_date,
                   all_feeds, order, idx, num_days, estimates, warning, results,
                   requests, exc, summary, ret, prev>>

\* urlretrieve(url, local_file) succeeds: OK, downloaded += 1
DownloadOK ==
    /\ InLoop
    /\ ~Exists(fs, local_file)
    /\ dirs' = dirs \cup {local_file}
    /\ requests' = Append(requests, local_file)
    /\ fs' = Put(fs, local_file, "data")
    /\ log' = Append(log, Line("OK"))
    /\ frame' = [frame EXCEPT !.downloaded = @ + 1, !.current = @ + 1]
    /\ UNCHANGED <<inventory, request, pc, run, status, start_date, end_date,
                   all_feeds, order, idx, num_days, estimates, warning, results,
                   exc, summary, ret, prev>>

\* the failed urlretrieve calls of this run so far
Failures == Cardinality({i \in 1 .. Len(log) : log[i].outcome = "FAILED"})

\* urlretrieve(url, local_file) raises HTTPError or another Exception, having
\* created a partial file at local_file or not
DownloadRaises ==
    /\ InLoop
    /\ ~Exists(fs, local_file)
    /\ Failures < MaxFailures
    /\ dirs' = dirs \cup {local_file}
    /\ requests' = Append(requests, local_file)
    /\ \E kind \in {"HTTPError", "Exception"}, partial \in BOOLEAN :
          /\ exc' = kind
          /\ fs' = IF partial THEN Put(fs, local_file, "partial") ELSE fs
    /\ pc' = "except"
    /\ UNCHANGED <<inventory, request, run, status, start_date, end_date,
                   all_feeds, order, idx, num_days, estimates, warning, frame,
                   results, log, summary, ret, prev>>

\* except HTTPError / except Exception: FAILED, the file is removed if it is
\* there, and the loop goes on with the next day
ExceptClause_CountsDownloaded ==
    /\ pc = "except"
    /\ log' = Append(log, Line("FAILED"))
    /\ fs' = Cleanup(fs, local_file)
    /\ exc' = "none"
    /\ frame' = [frame EXCEPT !.downloaded = @ + 1, !.current = @ + 1]
    /\ pc' = ExceptPc(exc)
    /\ UNCHANGED <<inventory, request, dirs, run, status, start_date, end_date,
                   all_feeds, order, idx, num_days, estimates, warning, results,
                   requests, summary, ret, prev>>

ExceptClause_Retry ==
    /\ pc = "except"
    /\ log' = Append(log, Line("FAILED"))
    /\ fs' = Cleanup(fs, local_file)
    /\ exc' = "none"
    /\ pc' = ExceptPc(exc)
    /\ UNCHANGED <<inventory, request, dirs, run, status, start_date, end_date,
                   all_feeds, order, idx, num_days, estimates, warning, frame,
                   results, requests, summary, ret, prev>>

ExceptClause ==
    /\ pc = "except"
    /\ log' = Append(log, Line("FAILED"))
    /\ fs' = Cleanup(fs, local_file)
    /\ exc' = "none"
    /\ frame' = [frame EXCEPT !.current = @ + 1]
    /\ pc' = ExceptPc(exc)
    /\ UNCHANGED <<inventory, request, dirs, run, status, start_date, end_date,
                   all_feeds, order, idx, num_days, estimates, warning, results,
                   requests, summary, ret, prev>>

\* return downloaded, skipped; results[key] = (downloaded, skipped)
FeedReturn ==
    /\ pc = "days"
    /\ ~LoopCond(frame.current, frame.end)
    /\ request.mode # "feed"
    /\ results' = Put(results, frame.key, <<frame.downloaded, frame.skipped>>)
    /\ idx' = idx + 1
    /\ pc' = "feeds"
    /\ UNCHANGED <<inventory, request, fs, dirs, run, status, start_date, end_date,
                   all_feeds, order, num_days, estimates, warning, frame, log,
                   requests, exc, summary, ret, prev>>

\* return downloaded, skipped to main: "Done! Downloaded: .., Skipped: .."
ExplicitReturn ==
    /\ pc = "days"
    /\ ~LoopCond(frame.current, frame.end)
    /\ request.mode = "feed"
    /\ ret' = <<frame.downloaded, frame.skipped>>
    /\ pc' = "done"
    /\ UNCHANGED <<inventory, request, fs, dirs, run, status, start_date, end_date,
                   all_feeds, order, idx, num_days, estimates, warning, frame,
                   results, log, requests, exc, summary, prev>>

\* results = download_agency(...); if results: print_summary(results, ...)
PrintSummary ==
    /\ pc = "returned"
    /\ DOMAIN results # {}
    /\ summary' = print_summary(results)
    /\ pc' = "done"
    /\ UNCHANGED <<inventory, request, fs, dirs, run, status, start_date, end_date,
                   all_feeds, order, idx, num_days, estimates, warning, frame,
                   results, log, requests, exc, ret, prev>>

\* ... and an empty results dict prints no summary
NoSummary ==
    /\ pc = "returned"
    /\ DOMAIN results = {}
    /\ pc' = "done"
    /\ UNCHANGED <<inventory, request, fs, dirs, run, status, start_date, end_date,
                   all_feeds, order, idx, num_days, estimates, warning, frame,
                   results, log, requests, exc, summary, ret, prev>>

\* the targets of a run with a given outcome
Targets(lines, outcomes) ==
    {<<lines[i].key, lines[i].date>> : i \in {j \in 1 .. Len(lines) :
                                              lines[j].outcome \in outcomes}}

\* the same command is invoked again on the same cache
Rerun ==
    /\ pc = "done"
    /\ run < MaxRuns
    /\ run' = run + 1
    /\ prev' = [downloaded |-> Targets(log, {"OK"}),
                failed |-> Targets(log, {"FAILED"}),
                fs |-> fs]
    /\ Fresh
    /\ UNCHANGED <<inventory, request, fs, dirs>>

Next ==
    \/ MainAgency
    \/ DownloadAgency
    \/ NextFeed
    \/ ReturnResults
    \/ ExplicitFeed
    \/ SkipExisting
    \/ DownloadOK
    \/ DownloadRaises
    \/ ExceptClause
    \/ FeedReturn
    \/ ExplicitReturn
    \/ PrintSummary
    \/ NoSummary
    \/ Rerun

Spec == Init /\ [][Next]_vars

(***************************************************************************)
(* Properties.                                                             *)
(***************************************************************************)
ResolutionErrors == {"UnknownAgency", "UnknownSystem"}
ViaAgency == request.mode \in {"main", "agency"}

\* the lines of the log that are about one feed, and their dates
LinesOf(key) == SelectSeq(log, LAMBDA e : e.key = key)
Count(key, outcome) ==
    Cardinality({i \in 1 .. Len(log) :
                    log[i].key = key /\ log[i].outcome = outcome})
Processed(key, date) ==
    \E i \in 1 .. Len(log) : log[i].key = key /\ log[i].date = date

\* C1: when the urlretrieve call for a target has failed (HTTPError or any
\* other Exception), then once the fetch of that target has finished there is
\* no file at its destination path, whether the call left a partial file
\* there or not.
FailureCleanup ==
    [][pc = "except" =>
          /\ local_file \notin DOMAIN fs'
          /\ log' = Append(log, Line("FAILED"))
          /\ requests[Len(requests)] = local_file]_vars

\* C1 witness: the urlretrieve call for a target has failed with an Exception
\* other than HTTPError and has left a partial file at the destination path.
FailureCleanupWitness ==
    /\ pc = "except"
    /\ exc = "Exception"
    /\ local_file \in DOMAIN fs
    /\ fs[local_file] = "partial"

\* C2: in a second run of the same request on the same cache, every target
\* the first run downloaded is skipped, and every file that was in the cache
\* when the second run began is still there with the same content.
Idempotency ==
    run >= 2 =>
        /\ \A p \in DOMAIN prev.fs : p \in DOMAIN fs /\ fs[p] = prev.fs[p]
        /\ pc = "done" =>
              \A t \in prev.downloaded :
                  /\ Processed(t[1], t[2])
                  /\ \A i \in 1 .. Len(log) :
                        (log[i].key = t[1] /\ log[i].date = t[2])
                            => log[i].outcome = "skip"

\* C2 witness: a second run has finished after a first run that downloaded
\* some targets and failed on others.
IdempotencyWitness ==
    /\ run = 2
    /\ pc = "done"
    /\ prev.downloaded # {}
    /\ prev.failed # {}

\* C3: a failed target does not stop the run: the run never ends by raising,
\* and when it is done every later day of the failed target's feed and every
\* day of every later feed has been processed.
FailureIsolation ==
    /\ pc # "raised"
    /\ (pc = "done" /\ status = "ok") =>
          \A i \in 1 .. Len(log) :
              log[i].outcome = "FAILED" =>
                  /\ \A n \in (strptime(log[i].date) + 1) .. strptime(end_date) :
                        Processed(log[i].key, strftime(n))
                  /\ \A j \in 1 .. Len(order) :
                        (\E k \in 1 .. (j - 1) : order[k] = log[i].key) =>
                            \A n \in strptime(start_date) .. strptime(end_date) :
                                Processed(order[j], strftime(n))

\* C3 witness: a finished agency run in which the first target failed and a
\* later day of that feed and a later feed were processed.
FailureIsolationWitness ==
    /\ pc = "done"
    /\ ViaAgency
    /\ Len(order) >= 2
    /\ Len(log) >= 3
    /\ log[1].outcome = "FAILED"
    /\ log[2].key = log[1].key
    /\ log[Len(log)].key # log[1].key

\* C4: a target whose file is already present is skipped: the transport is
\* not invoked, the cache is left as it is and the line says skip, whatever
\* the content of the file.
SkipIfExists ==
    [][(InLoop /\ local_file \in DOMAIN fs) =>
          /\ requests' = requests
          /\ exc' = exc
          /\ fs' = fs
          /\ log' = Append(log, Line("skip"))
          /\ frame'.skipped = frame.skipped + 1]_vars

\* C4 witness: a file that was in the cache before the first run, with
\* content the program did not write, has been skipped.
SkipIfExistsWitness ==
    \E i \in 1 .. Len(log) :
        /\ log[i].outcome = "skip"
        /\ log[i].file \in DOMAIN fs
        /\ fs[log[i].file] = "old"
        /\ requests = <<>>

\* C5: download_agency called with an agency that no inventory record has
\* reports UnknownAgency, and called with a system that no record of the
\* agency has reports UnknownSystem; in both cases the transport is invoked
\* for no target and no file or directory is created.
AgencyAbsent ==
    \A i \in 1 .. Len(inventory) : inventory[i].agency_id # request.agency_id
SystemAbsent ==
    /\ request.system_id # None
    /\ \A i \in 1 .. Len(inventory) :
          ~(/\ inventory[i].agency_id = request.agency_id
            /\ inventory[i].system_id = request.system_id)
ResolutionAborts ==
    /\ (ViaAgency /\ pc \in {"returned", "feeds", "days", "done"}
           /\ status # "NoInventory") =>
          /\ AgencyAbsent => status = "UnknownAgency"
          /\ (~AgencyAbsent /\ SystemAbsent) => status = "UnknownSystem"
    /\ status \in ResolutionErrors =>
          /\ requests = <<>>
          /\ log = <<>>
          /\ DOMAIN results = {}
          /\ fs \in InitialCaches
          /\ dirs = DOMAIN fs

\* C5 witness: download_agency has returned UnknownSystem for an agency the
\* inventory has, asked for the system "".
ResolutionAbortsWitness ==
    /\ pc = "returned"
    /\ status = "UnknownSystem"
    /\ request.system_id = Some("")
    /\ ~AgencyAbsent

Reversed == DateStrLess(end_date, start_date)

\* C6 as claimed: a run whose start date is after its end date reports
\* InvalidRange instead of completing as a normal run.
InvalidRangeRejected ==
    (pc = "done" /\ Reversed /\ status \notin ResolutionErrors)
        => status = "InvalidRange"

\* C6 as amended: a range whose start is after its end is not rejected; the
\* run completes normally with no date processed: download_feed_data invokes
\* the transport for no target and returns (0, 0), and download_agency
\* records (0, 0) for every feed key.
InvalidRangeIsEmptyRun ==
    (pc = "done" /\ Reversed) =>
        /\ status \in {"ok"} \cup ResolutionErrors
        /\ status = "ok" =>
              /\ log = <<>>
              /\ requests = <<>>
              /\ fs \in InitialCaches
              /\ request.mode = "feed" => ret = <<0, 0>>
              /\ ViaAgency =>
                    /\ DOMAIN results = DOMAIN all_feeds
                    /\ \A k \in DOMAIN results : results[k] = <<0, 0>>

\* C6 witness: download_agency has completed normally for a range whose start
\* is after its end, with a summary of its feeds.
InvalidRangeWitness ==
    /\ pc = "done"
    /\ Reversed
    /\ status = "ok"
    /\ ViaAgency
    /\ summary.printed
    /\ DOMAIN results # {}

\* the calendar dates d with start_date <= d <= end_date
DaysOfRange ==
    {d \in (start_date[1] .. end_date[1]) \X (1 .. 12) \X (1 .. 31) :
        /\ d[3] <= DaysInMonth(d[1], d[2])
        /\ ~DateStrLess(d, start_date)
        /\ ~DateStrLess(end_date, d)}

FeedKeys ==
    IF ViaAgency THEN {order[i] : i \in 1 .. Len(order)} ELSE {request.feed_type}

\* C7: for start <= end, a finished run has processed, for each feed, every
\* calendar date of [start, end] exactly once in ascending order, and their
\* number is the day count download_agency computes as num_days.
EachDayOnce ==
    (pc = "done" /\ status = "ok" /\ ~Reversed) =>
        \A key \in FeedKeys :
            LET lines == LinesOf(key)
            IN /\ Len(lines) = DayCount(start_date, end_date)
               /\ ViaAgency => Len(lines) = num_days
               /\ \A i \in 1 .. (Len(lines) - 1) :
                     DateStrLess(lines[i].date, lines[i + 1].date)
               /\ {lines[i].date : i \in 1 .. Len(lines)} = DaysOfRange

\* C7 witness: a finished agency run over 2024-02-29 .. 2024-03-01.
EachDayOnceWitness ==
    /\ pc = "done"
    /\ status = "ok"
    /\ ViaAgency
    /\ start_date = <<2024, 2, 29>>
    /\ end_date = <<2024, 3, 1>>
    /\ num_days = 2
    /\ Len(log) >= 2

\* the inventory records held in the feed slots that the request covers
InScope(i) ==
    /\ inventory[i].agency_id = request.agency_id
    /\ request.system_id # None => inventory[i].system_id = request.system_id
    /\ \A j \in (i + 1) .. Len(inventory) :
          ~(/\ inventory[j].agency_id = inventory[i].agency_id
            /\ inventory[j].system_id = inventory[i].system_id
            /\ inventory[j].feed_type = inventory[i].feed_type)

\* C8 as claimed: in a finished agency run every feed in scope has been
\* processed for every requested day and has its own entry in results.
CompleteExpansion ==
    (pc = "done" /\ status = "ok" /\ ViaAgency /\ ~Reversed) =>
        LET scope == {i \in 1 .. Len(inventory) : InScope(i)}
        IN /\ Cardinality(DOMAIN results) = Cardinality(scope)
           /\ \A i \in scope :
                 \A n \in strptime(start_date) .. strptime(end_date) :
                     \E j \in 1 .. Len(log) :
                         log[j].file = LocalFile(inventory[i].feed_type,
                                                 strftime(n),
                                                 inventory[i].base64url)

CodeLess(a, b) == SeqLess(Codes[a], Codes[b])

\* the code points of the key of a feed in all_feeds
KeyCodes(key) ==
    Codes[SidOrDefault(all_feeds[key][1])] \o <<58>> \o Codes[all_feeds[key][2]]
KeyCodeLess(a, b) == SeqLess(KeyCodes(a), KeyCodes(b))

\* C9 as claimed: the feeds of an agency run are estimated and processed in
\* order of feed_type first and system id second.
FeedTypeThenSystemOrder ==
    (pc = "done" /\ ViaAgency /\ status = "ok" /\ ~Reversed) =>
        \A i, j \in 1 .. Len(log) :
            i < j =>
                LET fi == all_feeds[log[i].key]
                    fj == all_feeds[log[j].key]
                IN /\ ~CodeLess(fj[2], fi[2])
                   /\ (fi[2] = fj[2] /\ fi[1] # None /\ fj[1] # None)
                         => ~CodeLess(fj[1][1], fi[1][1])

\* C9 as amended: the feeds of an agency run are estimated and processed in
\* ascending order of their compound key "<system id or default>:<feed_type>"
\* compared as a string, so by system first; all days of a feed are contiguous.
KeyOrder ==
    (ViaAgency /\ status = "ok") =>
        /\ \A i \in 1 .. Len(estimates) :
              LET f == all_feeds[estimates[i][1]]
              IN estimates[i][1] = SidOrDefault(f[1]) \o ":" \o f[2]
        /\ \A i \in 1 .. (Len(estimates) - 1) :
              KeyCodeLess(estimates[i][1], estimates[i + 1][1])
        /\ \A i \in 1 .. (Len(log) - 1) :
              \/ log[i].key = log[i + 1].key
              \/ KeyCodeLess(log[i].key, log[i + 1].key)

\* C9 witness: a finished run that processed a vehicle_positions feed of
\* system bus before a trip_updates feed of system rail.
KeyOrderWitness ==
    /\ pc = "done"
    /\ ViaAgency
    /\ Len(log) >= 2
    /\ log[1].key = "bus:vehicle_positions"
    /\ log[Len(log)].key = "rail:trip_updates"
    /\ Len(estimates) = 2

TotalCount(outcome) ==
    Cardinality({i \in 1 .. Len(log) : log[i].outcome = outcome})

\* C10: each feed's counts are the number of its targets that were absent
\* and downloaded and the number that were present and skipped; the totals
\* of the summary are the sums over all keys; no targets gives zero and zero.
SummaryCounts ==
    /\ \A key \in DOMAIN results :
          results[key] = <<Count(key, "OK"), Count(key, "skip")>>
    /\ Len(requests) = TotalCount("OK") + TotalCount("FAILED")
                          + (IF pc = "except" THEN 1 ELSE 0)
    /\ summary.printed =>
          /\ summary.total_downloaded = TotalCount("OK")
          /\ summary.total_skipped = TotalCount("skip")
    /\ (pc = "done" /\ request.mode = "feed") =>
          ret = <<Count(request.feed_type, "OK"), Count(request.feed_type, "skip")>>

\* C10 witness: a summary of two feeds has been printed for a run with
\* skipped, downloaded and failed targets.
SummaryCountsWitness ==
    /\ pc = "done"
    /\ summary.printed
    /\ Cardinality(DOMAIN results) = 2
    /\ summary.total_downloaded >= 1
    /\ summary.total_skipped >= 1
    /\ summary.total_downloaded # summary.total_skipped
    /\ TotalCount("FAILED") >= 1

(***************************************************************************)
(* What a run reports about its failed targets.                            *)
(***************************************************************************)
\* what download_feed_data returned for a feed: to download_agency, which
\* stores it in results, or to main
Returned(key) == IF ViaAgency THEN results[key] ELSE ret

\* the transport calls of the run that the progress lines report, in order
ReportedCalls ==
    LET calls == SelectSeq(log, LAMBDA e : e.outcome \in {"OK", "FAILED"})
    IN [i \in 1 .. Len(calls) |-> calls[i].file]

\* C11 as claimed: what download_feed_data / download_agency return to the
\* summary names each target whose fetch failed together with its cause, and
\* so does the summary.
FailuresInResult ==
    (pc = "done" /\ status = "ok") =>
        \A i \in 1 .. Len(log) :
            log[i].outcome = "FAILED" =>
                /\ \E k \in 3 .. Len(Returned(log[i].key)) :
                      /\ Returned(log[i].key)[k][1] = log[i].date
                      /\ Returned(log[i].key)[k][2] \in {"HTTPError", "Exception"}
                /\ ViaAgency =>
                      \E j \in 1 .. Len(summary.lines) :
                          /\ summary.lines[j][1] = log[i].key
                          /\ \E k \in 4 .. Len(summary.lines[j]) :
                                summary.lines[j][k][1] = log[i].date

\* C11 as amended: a failed target is reported only by its own progress line
\* (FAILED, printed by the except clause of either exception kind).  What
\* is returned for a feed is just the pair (downloaded, skipped): a failed
\* target is counted in neither, so that for start <= end the two counts and
\* the feed's failures add up to the number of days, and the totals of the
\* summary and the failures add up to the number of targets processed.
FailuresOnlyInProgress ==
    /\ pc # "except" => ReportedCalls = requests
    /\ pc = "except" =>
          /\ exc \in {"HTTPError", "Exception"}
          /\ ReportedCalls = SubSeq(requests, 1, Len(requests) - 1)
    /\ (pc = "done" /\ status = "ok") =>
          \A key \in FeedKeys :
              /\ Len(Returned(key)) = 2
              /\ ~Reversed =>
                    Returned(key)[1] + Returned(key)[2] + Count(key, "FAILED")
                        = DayCount(start_date, end_date)
    /\ summary.printed =>
          /\ \A j \in 1 .. Len(summary.lines) :
                /\ Len(summary.lines[j]) = 3
                /\ summary.lines[j][2] = Count(summary.lines[j][1], "OK")
                /\ summary.lines[j][3] = Count(summary.lines[j][1], "skip")
          /\ summary.total_downloaded + summary.total_skipped
                + TotalCount("FAILED") = Len(log)

\* C11 witness: a summary has been printed for a run in which the only target
\* of one feed failed, so that the feed is listed with 0 downloaded and 0
\* skipped, while a target of another feed was downloaded.
FailuresOnlyInProgressWitness ==
    /\ pc = "done"
    /\ summary.printed
    /\ Len(log) = 2
    /\ log[1].outcome = "FAILED"
    /\ results[log[1].key] = <<0, 0>>
    /\ log[2].outcome = "OK"
    /\ log[2].key # log[1].key

(***************************************************************************)
(* Interruption.  KeyboardInterrupt and a killed process are not caught by *)
(* "except HTTPError" / "except Exception": the run ends where it is.      *)
(* urlretrieve(url, local_file) writes to the destination path itself, so  *)
(* a transfer that is cut off leaves the part already written there.       *)
(***************************************************************************)
Interrupt ==
    /\ pc \notin {"done", "interrupted"}
    /\ run < MaxRuns
    /\ \E writing \in BOOLEAN :
          IF writing
          THEN /\ InLoop
               /\ ~Exists(fs, local_file)
               /\ dirs' = dirs \cup {local_file}
               /\ requests' = Append(requests, local_file)
               /\ fs' = Put(fs, local_file, "partial")
          ELSE UNCHANGED <<fs, dirs, requests>>
    /\ pc' = "interrupted"
    /\ UNCHANGED <<inventory, request, run, status, start_date, end_date,
                   all_feeds, order, idx, num_days, estimates, warning, frame,
                   results, log, exc, summary, ret, prev>>

\* the interrupted command is invoked again on the cache as it was left
Reinvoke ==
    /\ pc = "interrupted"
    /\ run < MaxRuns
    /\ run' = run + 1
    /\ prev' = [downloaded |-> Targets(log, {"OK"}),
                failed |-> Targets(log, {"FAILED"}),
                fs |-> fs]
    /\ Fresh
    /\ UNCHANGED <<inventory, request, fs, dirs>>

NextInterrupt ==
    \/ Next
    \/ Interrupt
    \/ Reinvoke

SpecInterrupt == Init /\ [][NextInterrupt]_vars

\* a file of a cache whose transfer completed, or that was there before
Completed(files, file) == file \in DOMAIN files /\ files[file] \in {"data", "old"}

\* C12: when an interrupted run is invoked again, every target it reports as
\* skipped has a completely transferred file, and every target whose file
\* had not been completely transferred when the second run began is handed
\* to the transport when the second run first comes to it.
ResumeAfterInterruption ==
    /\ \A i \in 1 .. Len(log) :
          log[i].outcome = "skip" => Completed(fs, log[i].file)
    /\ run >= 2 =>
          \A i \in 1 .. Len(log) :
              (/\ ~Completed(prev.fs, log[i].file)
               /\ \A j \in 1 .. (i - 1) : log[j].file # log[i].file)
                  => log[i].outcome \in {"OK", "FAILED"}

(***************************************************************************)
(* Passes and retries.                                                     *)
(***************************************************************************)
\* the line of this pass about a target, a (feed key, date) pair
LineOf(t) == CHOOSE i \in 1 .. Len(log) : log[i].key = t[1] /\ log[i].date = t[2]

\* within one pass no target comes up twice, and every transport call is the
\* one call of a target that ended OK or FAILED (or is being handled)
OncePerPass ==
    /\ \A i, j \in 1 .. Len(log) :
          (log[i].key = log[j].key /\ log[i].date = log[j].date) => i = j
    /\ Len(requests) = TotalCount("OK") + TotalCount("FAILED")
                          + (IF pc = "except" THEN 1 ELSE 0)
    /\ pc = "except" =>
          \A i \in 1 .. Len(log) :
              ~(log[i].key = frame.key /\ log[i].date = date_str)

\* C13 as claimed: within one pass the transport is invoked at most once per
\* target, also after a failure; the next pass invokes the transport again
\* for every target that failed, and skips every target that was downloaded.
NoRetries ==
    /\ OncePerPass
    /\ (run >= 2 /\ pc = "done") =>
          /\ \A t \in prev.failed :
                /\ Processed(t[1], t[2])
                /\ log[LineOf(t)].outcome \in {"OK", "FAILED"}
          /\ \A t \in prev.downloaded :
                /\ Processed(t[1], t[2])
                /\ log[LineOf(t)].outcome = "skip"

\* C13 as amended: within one pass the transport is invoked at most once per
\* target, also after a failure.  The next pass invokes the transport for a
\* target exactly when no file is at its destination path when the pass comes
\* to it: a target that failed is attempted again unless a file has been
\* stored at its path since (later in the same pass or earlier in the next),
\* by another feed with the same feed_type and identifier; a target that was
\* downloaded is skipped.
NoRetriesPerPath ==
    /\ OncePerPass
    /\ run >= 2 =>
          \A i \in 1 .. Len(log) :
              log[i].outcome = "skip" <=>
                  \/ log[i].file \in DOMAIN prev.fs
                  \/ \E j \in 1 .. (i - 1) :
                        log[j].file = log[i].file /\ log[j].outcome = "OK"
    /\ (run >= 2 /\ pc = "done") =>
          /\ \A t \in prev.failed :
                /\ Processed(t[1], t[2])
                /\ \/ log[LineOf(t)].outcome \in {"OK", "FAILED"}
                   \/ log[LineOf(t)].file \in DOMAIN prev.fs
                   \/ \E j \in 1 .. (LineOf(t) - 1) :
                         /\ log[j].file = log[LineOf(t)].file
                         /\ log[j].outcome = "OK"
          /\ \A t \in prev.downloaded :
                /\ Processed(t[1], t[2])
                /\ log[LineOf(t)].outcome = "skip"

\* C13 witness: a second pass has finished in which a target that failed in
\* the first pass was handed to the transport again and a target that the
\* first pass downloaded was skipped.
NoRetriesPerPathWitness ==
    /\ run = 2
    /\ pc = "done"
    /\ \E t \in prev.failed :
          /\ Processed(t[1], t[2])
          /\ log[LineOf(t)].outcome = "OK"
          /\ log[LineOf(t)].file \in {requests[k] : k \in 1 .. Len(requests)}
    /\ \E t \in prev.downloaded :
          /\ Processed(t[1], t[2])
          /\ log[LineOf(t)].outcome = "skip"

\* C14: a file that is present at a destination path is never rewritten,
\* truncated or deleted, in any run: every step leaves every file of the
\* cache as it is, except that the except clause deletes the partial file at
\* the path of the failing attempt; and an attempt is only ever made at a
\* path where no file was, so that file was created by the attempt itself.
CacheImmutable ==
    [][/\ \A p \in DOMAIN fs :
             \/ p \in DOMAIN fs' /\ fs'[p] = fs[p]
             \/ /\ pc = "except"
                /\ p = local_file
                /\ fs[p] = "partial"
                /\ requests[Len(requests)] = p
                /\ p \notin DOMAIN fs'
       /\ (run' = run /\ requests' # requests) =>
             /\ requests' = Append(requests, local_file)
             /\ local_file \notin DOMAIN fs
       /\ \A p \in DOMAIN fs' : fs'[p] = "old" => p \in DOMAIN fs]_vars

\* C14 witness: in a second run over a cache that held a file before the
\* first run, a transfer has failed and its path is empty again, while the
\* old file is still there.
CacheImmutableWitness ==
    /\ run = 2
    /\ pc = "done"
    /\ \E i \in 1 .. Len(log) :
          log[i].outcome = "FAILED" /\ log[i].file \notin DOMAIN fs
    /\ \E p \in DOMAIN fs : fs[p] = "old" /\ p \in DOMAIN prev.fs

(***************************************************************************)
(* main --list: list_agencies prints the index that get_agencies builds.   *)
(***************************************************************************)
\* inventory records as the provider may supply them: two records of the
\* same (agency, system, feed_type) with different date bounds, and records
\* of one agency and system that spell its display names differently
IndexRecords ==
    { Rec("A", None, None, "vehicle_positions", "X",
          <<2024, 2, 29>>, <<2024, 3, 1>>, 3100),
      Rec("A", None, None, "vehicle_positions", "Y",
          <<2024, 3, 1>>, <<2024, 3, 1>>, 100),
      Rec("A", Some("bus"), Some("Bus"), "trip_updates", "P",
          <<2024, 2, 28>>, <<2024, 2, 29>>, 1000),
      [Rec("A", Some("bus"), Some("Bus lines"), "vehicle_positions", "Q",
           <<2024, 3, 1>>, <<2024, 3, 2>>, 0)
          EXCEPT !.agency_name = "Agency A (bus)"],
      Rec("B", None, None, "service_alerts", "Z",
          <<2025, 12, 31>>, <<2026, 1, 1>>, 10) }

IndexInventories == SeqsUpTo(IndexRecords, MaxRecords + 1)

\* sum(len(s["feeds"]) for s in systems.values())
RECURSIVE TotalFeeds(_, _)
TotalFeeds(systems, i) ==
    IF i > Len(systems.keys) THEN 0
    ELSE Len(systems.val[systems.keys[i]].feeds.keys) + TotalFeeds(systems, i + 1)

\* the breakdown lines of one agency: its named systems, sorted by id
SystemRows(aid, systems) ==
    LET named == {systems.keys[i][1] :
                     i \in {j \in 1 .. Len(systems.keys) : systems.keys[j] # None}}
        sids == sorted(named)
    IN [i \in 1 .. Len(sids) |->
           LET sys_info == systems.val[Some(sids[i])]
           IN [id |-> aid \o "/" \o sids[i],
               name |-> IF Truthy(sys_info.name) THEN sys_info.name[1] ELSE sids[i],
               feeds |-> Len(sys_info.feeds.keys),
               date_min |-> sys_info.date_min,
               date_max |-> sys_info.date_max]]

\* for aid in sorted(agencies.keys()): the agency's line, then its systems
RECURSIVE AgencyRows(_, _)
AgencyRows(agencies, aids) ==
    IF aids = <<>> THEN <<>>
    ELSE LET aid == Head(aids)
             info == agencies[aid]
         IN <<[id |-> aid, name |-> info.name,
               feeds |-> TotalFeeds(info.systems, 1),
               date_min |-> info.date_min, date_max |-> info.date_max]>>
            \o SystemRows(aid, info.systems)
            \o AgencyRows(agencies, Tail(aids))

list_agencies(inv) ==
    LET agencies == get_agencies(inv)
    IN AgencyRows(agencies, sorted(DOMAIN agencies))

InitIndex ==
    /\ inventory \in IndexInventories
    /\ request = Req("list", "", None, FALSE, DEFAULT_DATE, DEFAULT_DATE, "", "")
    /\ fs = <<>>
    /\ dirs = {}
    /\ run = 1
    /\ prev = NoPrev
    /\ pc = "list"
    /\ status = "none"
    /\ start_date = request.start_date
    /\ end_date = request.end_date
    /\ all_feeds = <<>>
    /\ order = <<>>
    /\ idx = 0
    /\ num_days = 0
    /\ estimates = <<>>
    /\ warning = FALSE
    /\ frame = NoFrame
    /\ results = <<>>
    /\ log = <<>>
    /\ requests = <<>>
    /\ exc = "none"
    /\ summary = NoSummaryYet
    /\ ret = <<>>

\* if not inventory: print("Error: Could not fetch inventory ..."); return
ListNoInventory ==
    /\ pc = "list"
    /\ inventory = <<>>
    /\ status' = "NoInventory"
    /\ pc' = "done"
    /\ UNCHANGED <<inventory, request, fs, dirs, run, start_date, end_date,
                   all_feeds, order, idx, num_days, estimates, warning, frame,
                   results, log, requests, exc, summary, ret, prev>>

\* list_agencies(inventory): the lines it prints
ListAgencies ==
    /\ pc = "list"
    /\ inventory # <<>>
    /\ log' = list_agencies(inventory)
    /\ status' = "ok"
    /\ pc' = "done"
    /\ UNCHANGED <<inventory, request, fs, dirs, run, start_date, end_date,
                   all_feeds, order, idx, num_days, estimates, warning, frame,
                   results, requests, exc, summary, ret, prev>>

NextIndex ==
    \/ ListNoInventory
    \/ ListAgencies

SpecIndex == InitIndex /\ [][NextIndex]_vars

\* the records held in the feed slots of a system, and of a whole agency
HeldIn(sys_info) == {sys_info.feeds.val[ft] : ft \in DOMAIN sys_info.feeds.val}
HeldInAgency(info) ==
    UNION {HeldIn(info.systems.val[sid]) : sid \in DOMAIN info.systems.val}

MinDate(S) == CHOOSE d \in S : \A e \in S : ~DateStrLess(e, d)
MaxDate(S) == CHOOSE d \in S : \A e \in S : ~DateStrLess(d, e)

\* C15: in the index get_agencies builds, the date bounds of each system are
\* the minimum date_min and the maximum date_max of the records held in its
\* feed slots, and the bounds of each agency those of the records held in
\* all its systems, also when the input has several records of one
\* (agency, system, feed_type), of which only the last is held; the agency
\* lines that list_agencies prints show these bounds.
AggregateBounds ==
    LET agencies == get_agencies(inventory)
    IN /\ (pc = "done" /\ status = "ok") => \A aid \in DOMAIN agencies :
             LET info == agencies[aid]
                 held == HeldInAgency(info)
             IN /\ info.date_min = MinDate({f.date_min : f \in held})
                /\ info.date_max = MaxDate({f.date_max : f \in held})
                /\ \A sid \in DOMAIN info.systems.val :
                      LET sys_info == info.systems.val[sid]
                      IN /\ sys_info.date_min
                               = MinDate({f.date_min : f \in HeldIn(sys_info)})
                         /\ sys_info.date_max
                               = MaxDate({f.date_max : f \in HeldIn(sys_info)})
       /\ (pc = "done" /\ request.mode = "list") =>
             \A i \in 1 .. Len(log) :
                 log[i].id \in DOMAIN agencies =>
                     LET held == HeldInAgency(agencies[log[i].id])
                     IN /\ log[i].date_min = MinDate({f.date_min : f \in held})
                        /\ log[i].date_max = MaxDate({f.date_max : f \in held})

\* the input orders of a list of n records
Perms(n) == {p \in [1 .. n -> 1 .. n] : \A i, j \in 1 .. n : p[i] = p[j] => i = j}
Permuted(inv, p) == [i \in 1 .. Len(inv) |-> inv[p[i]]]

SameSystem(f, g) == f.agency_id = g.agency_id /\ f.system_id = g.system_id
SameSlot(f, g) == SameSystem(f, g) /\ f.feed_type = g.feed_type

\* the last record of a list for the slot of f, the first record of its
\* agency and the first record of its system
LastOfSlot(inv, f) ==
    inv[CHOOSE i \in 1 .. Len(inv) :
            /\ SameSlot(inv[i], f)
            /\ \A j \in (i + 1) .. Len(inv) : ~SameSlot(inv[j], f)]
FirstOfAgency(inv, aid) ==
    inv[CHOOSE i \in 1 .. Len(inv) :
            /\ inv[i].agency_id = aid
            /\ \A j \in 1 .. (i - 1) : inv[j].agency_id # aid]
FirstOfSystem(inv, aid, sid) ==
    inv[CHOOSE i \in 1 .. Len(inv) :
            /\ inv[i].agency_id = aid /\ inv[i].system_id = sid
            /\ \A j \in 1 .. (i - 1) :
                  ~(inv[j].agency_id = aid /\ inv[j].system_id = sid)]

\* two indexes have the same agencies, systems, feed types and date bounds
SameGrouping(a, b) ==
    /\ DOMAIN a = DOMAIN b
    /\ \A aid \in DOMAIN a :
          /\ a[aid].date_min = b[aid].date_min
          /\ a[aid].date_max = b[aid].date_max
          /\ DOMAIN a[aid].systems.val = DOMAIN b[aid].systems.val
          /\ \A sid \in DOMAIN a[aid].systems.val :
                LET s == a[aid].systems.val[sid]
                    u == b[aid].systems.val[sid]
                IN /\ s.date_min = u.date_min
                   /\ s.date_max = u.date_max
                   /\ DOMAIN s.feeds.val = DOMAIN u.feeds.val

\* ... and the same display names
SameNames(a, b) ==
    \A aid \in DOMAIN a :
        /\ a[aid].name = b[aid].name
        /\ \A sid \in DOMAIN a[aid].systems.val :
              a[aid].systems.val[sid].name = b[aid].systems.val[sid].name

\* every slot of the index of inv holds the last record of inv for it
LastWins(a, inv) ==
    \A aid \in DOMAIN a :
        \A sid \in DOMAIN a[aid].systems.val :
            \A ft \in DOMAIN a[aid].systems.val[sid].feeds.val :
                LET f == a[aid].systems.val[sid].feeds.val[ft]
                IN /\ f.agency_id = aid /\ f.system_id = sid /\ f.feed_type = ft
                   /\ f = LastOfSlot(inv, f)

\* every name of the index of inv is that of the first record of inv of the
\* agency or system
FirstNames(a, inv) ==
    \A aid \in DOMAIN a :
        /\ a[aid].name = FirstOfAgency(inv, aid).agency_name
        /\ \A sid \in DOMAIN a[aid].systems.val :
              a[aid].systems.val[sid].name = FirstOfSystem(inv, aid, sid).system_name

\* C16 as claimed: the records of the inventory given in any other order
\* produce the same index: the same agencies, systems, feed types, names and
\* date bounds, and in each slot the last record of that order for it.
OrderIndependent ==
    (pc = "done" /\ status = "ok") =>
        \A p \in Perms(Len(inventory)) :
            LET other == Permuted(inventory, p)
                a == get_agencies(inventory)
                b == get_agencies(other)
            IN /\ SameGrouping(a, b)
               /\ SameNames(a, b)
               /\ LastWins(b, other)

\* C16 as amended: the records of the inventory given in any other order
\* produce the same agencies, systems, feed types and date bounds; each slot
\* holds the last record of that order for it; and the name of an agency or
\* of a system is the one in the first record of that order for it, which is
\* also the name list_agencies prints for the agency.
OrderIndependentButNames ==
    (pc = "done" /\ status = "ok") =>
        /\ \A p \in Perms(Len(inventory)) :
              LET other == Permuted(inventory, p)
                  a == get_agencies(inventory)
                  b == get_agencies(other)
              IN /\ SameGrouping(a, b)
                 /\ LastWins(b, other)
                 /\ FirstNames(b, other)
        /\ request.mode = "list" =>
              \A i \in 1 .. Len(log) :
                  log[i].id \in DOMAIN get_agencies(inventory) =>
                      log[i].name = FirstOfAgency(inventory, log[i].id).agency_name

\* C16 witness: an inventory of three records has been listed, of which
\* another order gives a slot another record and the agency another name.
OrderIndependentWitness ==
    /\ pc = "done"
    /\ status = "ok"
    /\ request.mode = "list"
    /\ Len(inventory) = 3
    /\ \E p \in Perms(3) :
          LET a == get_agencies(inventory)
              b == get_agencies(Permuted(inventory, p))
          IN /\ "A" \in DOMAIN a
             /\ None \in DOMAIN a["A"].systems.val
             /\ "vehicle_positions" \in DOMAIN a["A"].systems.val[None].feeds.val
             /\ a["A"].name # b["A"].name
             /\ a["A"].systems.val[None].feeds.val["vehicle_positions"]
                   # b["A"].systems.val[None].feeds.val["vehicle_positions"]

====
